---- MODULE Spec2Model ----
(***************************************************************************)
(* Model of snakemake/remote/FTP.py: RemoteObject, the FTP remote-file     *)
(* adapter.  Strings are sequences of one-character strings.  The module   *)
(* models the address parsing, the scoped connection manager ftpc(), and   *)
(* the public operations exists, mtime, size, download, upload and list    *)
(* as a call stack stepping through their FTP calls.                       *)
(***************************************************************************)
EXTENDS Integers, Sequences, FiniteSets, TLC

VARIABLES
    file,                  \* self._iofile._file: the address string (also local_path)
    kwargs,                \* self.kwargs: keyword arguments given to remote()
    provider_kwargs,       \* self.provider.kwargs: keyword arguments of the RemoteProvider
    encrypt_data_channel,  \* self.encrypt_data_channel (constructor parameter)
    rfiles,                \* the server: regular files, path components -> content
    local_file,            \* content of the local file at local_path, or NoFile
    local_dir,             \* whether dirname(local_path) exists locally
    conns,                 \* every FTPHost created and not yet collected
    stack,                 \* call stack of the running invocation
    log,                   \* FTP calls of the running invocation, in order
    faulted,               \* the running invocation met a transport failure
    result,                \* outcome of the last finished invocation
    prev                   \* the invocation finished before the last one

vars == <<file, kwargs, provider_kwargs, encrypt_data_channel, rfiles, local_file,
          local_dir, conns, stack, log, faulted, result, prev>>

----------------------------------------------------------------------------
(* Characters and strings                                                   *)

NL == "\n"

Digits == {"0", "1", "2"}

\* [A-Za-z0-9\-\.] restricted to the characters of the model's alphabet
HostChars == {"h", "a", "d", "s"} \cup Digits \cup {"-", "."}

None == "None"

DigitValue(c) == CASE c = "0" -> 0 [] c = "1" -> 1 [] c = "2" -> 2

\* int(text) for a non-empty run of digits
RECURSIVE int(_)
int(t) == IF t = <<>> THEN 0
          ELSE int(SubSeq(t, 1, Len(t) - 1)) * 10 + DigitValue(t[Len(t)])

\* length of the longest prefix of s made of characters of set cs
RECURSIVE RunLength(_, _)
RunLength(s, cs) == IF s = <<>> \/ s[1] \notin cs THEN 0
                    ELSE 1 + RunLength(Tail(s), cs)

Drop(s, n) == SubSeq(s, n + 1, Len(s))

Take(s, n) == SubSeq(s, 1, n)

\* '.*$' without re.MULTILINE: '.' matches no newline and '$' matches at the
\* end of the string or just before a newline that ends the string.
DotStarDollar(rest) ==
    LET n == RunLength(rest, {c \in {rest[i] : i \in 1..Len(rest)} : c # NL})
    IN  IF n = Len(rest) THEN [ok |-> TRUE, text |-> rest]
        ELSE IF n = Len(rest) - 1 THEN [ok |-> TRUE, text |-> Take(rest, n)]
        ELSE [ok |-> FALSE]

\* the result of a search that found nothing (Python's None match object)
NoMatch == [matched |-> FALSE]

\* re.search("^(?P<host>[A-Za-z0-9\-\.]+)(?:\:(?P<port>[0-9]+))?(?P<path_remainder>.*)$", s)
\* The groups of the match, or NoMatch.  Both quantified groups are greedy, and
\* giving characters back to '.*' never turns a failure into a match.  A port
\* group that did not take part in the match is the empty text: the group
\* matches at least one digit when it does, and the code only tests its truth.
matched_address(s) ==
    LET hl       == RunLength(s, HostChars)
        afterh   == Drop(s, hl)
        pl       == IF afterh # <<>> /\ afterh[1] = ":"
                    THEN RunLength(Tail(afterh), Digits) ELSE 0
        porttext == IF pl > 0 THEN SubSeq(afterh, 2, pl + 1) ELSE <<>>
        rest     == IF pl > 0 THEN Drop(afterh, pl + 1) ELSE afterh
        path     == DotStarDollar(rest)
    IN  IF hl = 0 \/ ~path.ok THEN NoMatch
        ELSE [matched |-> TRUE, host |-> Take(s, hl), port |-> porttext,
              path_remainder |-> path.text]

\* truth value of the match object
Matched(s) == matched_address(s).matched

host(s) == IF Matched(s) THEN matched_address(s).host ELSE None

DefaultPort == 21

\* self.port reads the group without testing the match: on a string that does
\* not match it raises AttributeError ('NoneType' has no attribute 'group')
portRaises(s) == ~Matched(s)

port(s) == IF matched_address(s).port # <<>> THEN int(matched_address(s).port)
           ELSE DefaultPort

path_remainder(s) == IF Matched(s) THEN matched_address(s).path_remainder ELSE None

remote_path(s) == path_remainder(s)

local_path(s) == s

----------------------------------------------------------------------------
(* os.path (posixpath)                                                      *)

Slash == "/"

\* s.split('/')
RECURSIVE Split(_)
Split(s) ==
    LET n == RunLength(s, {c \in {s[i] : i \in 1..Len(s)} : c # Slash})
    IN  IF n = Len(s) THEN <<s>>
        ELSE <<Take(s, n)>> \o Split(Drop(s, n + 1))

\* '/'.join(comps)
RECURSIVE JoinComps(_)
JoinComps(comps) ==
    IF comps = <<>> THEN <<>>
    ELSE IF Len(comps) = 1 THEN comps[1]
    ELSE comps[1] \o <<Slash>> \o JoinComps(Tail(comps))

DotDot == <<".", ".">>

\* the loop of posixpath.normpath over the components, new_comps being acc
RECURSIVE NormComps(_, _, _)
NormComps(comps, acc, initial_slashes) ==
    IF comps = <<>> THEN acc
    ELSE LET comp == comps[1]
         IN  IF comp = <<>> \/ comp = <<".">>
             THEN NormComps(Tail(comps), acc, initial_slashes)
             ELSE IF comp # DotDot
                     \/ (initial_slashes = 0 /\ acc = <<>>)
                     \/ (acc # <<>> /\ acc[Len(acc)] = DotDot)
             THEN NormComps(Tail(comps), Append(acc, comp), initial_slashes)
             ELSE IF acc # <<>>
             THEN NormComps(Tail(comps), Take(acc, Len(acc) - 1), initial_slashes)
             ELSE NormComps(Tail(comps), acc, initial_slashes)

\* posixpath.normpath: exactly two leading slashes are kept, three or more
\* become one
normpath(path) ==
    IF path = <<>> THEN <<".">>
    ELSE LET lead == RunLength(path, {Slash})
             initial_slashes == IF lead = 0 THEN 0 ELSE IF lead = 2 THEN 2 ELSE 1
             joined == JoinComps(NormComps(Split(path), <<>>, initial_slashes))
             out == [i \in 1..initial_slashes |-> Slash] \o joined
         IN  IF out = <<>> THEN <<".">> ELSE out

\* index of the last '/' of p, 0 when there is none (p.rfind('/') + 1)
RECURSIVE LastSlash(_)
LastSlash(p) == IF p = <<>> THEN 0
                ELSE IF p[Len(p)] = Slash THEN Len(p)
                ELSE LastSlash(Take(p, Len(p) - 1))

\* s.rstrip('/')
RECURSIVE RStripSlash(_)
RStripSlash(s) == IF s # <<>> /\ s[Len(s)] = Slash
                  THEN RStripSlash(Take(s, Len(s) - 1)) ELSE s

\* posixpath.dirname
dirname(p) ==
    LET head == Take(p, LastSlash(p))
    IN  IF head # <<>> /\ RunLength(head, {Slash}) # Len(head)
        THEN RStripSlash(head) ELSE head

\* posixpath.join(a, b)
join(a, b) ==
    IF b # <<>> /\ b[1] = Slash THEN b
    ELSE IF a = <<>> \/ a[Len(a)] = Slash THEN a \o b
    ELSE a \o <<Slash>> \o b

\* re.search("{[^{]", pattern).start() as a 1-based index, 0 when nothing is
\* found: the first '{' that is followed by a character other than '{'
RECURSIVE first_wildcard_from(_, _)
first_wildcard_from(pattern, i) ==
    IF i >= Len(pattern) THEN 0
    ELSE IF pattern[i] = "{" /\ pattern[i + 1] # "{" THEN i
    ELSE first_wildcard_from(pattern, i + 1)

first_wildcard(pattern) == first_wildcard_from(pattern, 1)

\* the directory list() walks from (lines 116-121)
list_dirname(rpath) ==
    LET pattern == normpath(rpath)
        fw      == first_wildcard(pattern)
        dn      == IF fw # 0 THEN dirname(Take(pattern, fw - 1)) ELSE dirname(pattern)
    IN  IF dn = <<>> THEN <<".">> ELSE dn

----------------------------------------------------------------------------
(* The FTP server and the local file system (the environment)               *)

\* the server's directories, as component lists below the root: /, /d, /d/s
RemoteDirs == {<<>>, <<<<"d">>>>, <<<<"d">>, <<"s">>>>}

\* the places where the server may hold a regular file: /a, /d/a, /d/s/a
RemoteFilePaths == {<<<<"a">>>>, <<<<"d">>, <<"a">>>>, <<<<"d">>, <<"s">>, <<"a">>>>}

Contents == {<<"x">>, <<"x", "y">>}

NoFile == <<"ENOENT">>

\* the entry a path string names on the server; the login directory is /
Resolve(path) == NormComps(Split(path), <<>>, 1)

IsRemoteFile(fs, path) == Resolve(path) \in DOMAIN fs

IsRemoteDir(path) == Resolve(path) \in RemoteDirs

\* ftpc.path.exists(path)
path_exists(fs, path) == IsRemoteFile(fs, path) \/ IsRemoteDir(path)

\* ftpc.walk(top): the (dirpath, name) pairs of the top-down walk, files and
\* directories alike; dirpath is top itself and then join(dirpath, name).
\* A top that cannot be listed yields nothing (walk's onerror is None).
RECURSIVE walk(_, _)
walk(fs, top) ==
    IF ~IsRemoteDir(top) THEN {}
    ELSE LET here      == Resolve(top)
             filenames == {q[Len(q)] : q \in {r \in DOMAIN fs :
                              Len(r) > 0 /\ Take(r, Len(r) - 1) = here}}
             dirnames  == {q[Len(q)] : q \in {r \in RemoteDirs :
                              Len(r) > 0 /\ Take(r, Len(r) - 1) = here}}
         IN  {<<top, f>> : f \in filenames \cup dirnames}
             \cup UNION {walk(fs, join(top, n)) : n \in dirnames}

\* lines 124-127 of list(): the entries as paths, one leading '/' removed.
\* The list is modelled as the set of its entries.
file_list(fs, rpath) ==
    LET joined == {IF e[1] # <<".">> THEN join(e[1], e[2]) ELSE e[2]
                     : e \in walk(fs, list_dirname(rpath))}
    IN  {IF file_path[1] = Slash THEN Tail(file_path) ELSE file_path
           : file_path \in joined}

----------------------------------------------------------------------------
(* The merged connection configuration (ftpc, lines 48-68)                  *)

\* dict update: base overlaid with over
Overlay(base, over) ==
    [k \in DOMAIN base \cup DOMAIN over |->
        IF k \in DOMAIN over THEN over[k] ELSE base[k]]

kwargs_to_use(s, enc, pkw, kw) ==
    Overlay(Overlay([host |-> host(s), username |-> None, password |-> None,
                     port |-> port(s), encrypt_data_channel |-> enc],
                    pkw),
            kw)

\* ftplib.FTP_TLS if kwargs_to_use["encrypt_data_channel"] else ftplib.FTP
ftp_base_class(cfg) == IF cfg.encrypt_data_channel THEN "FTP_TLS" ELSE "FTP"

\* ftputil.FTPHost(host, username, password, session_factory=...)
FTPHost(cfg) ==
    [host |-> cfg.host, username |-> cfg.username, password |-> cfg.password,
     port |-> cfg.port, encrypt_data_channel |-> cfg.encrypt_data_channel,
     base_class |-> ftp_base_class(cfg), open |-> TRUE]

----------------------------------------------------------------------------
(* State                                                                    *)

MaxLeaked == 1

Addresses ==
    { <<"h", "/", "d", "/", "a">>,                      \* h/d/a
      <<"h", ":", "2", "1", "/", "d", "/", "a">>,       \* h:21/d/a
      <<"h", ":", "0", "2", "/", "d", "/", "{", "s", "}">>,  \* h:02/d/{s}
      <<"h", ":", "2", "a">>,                           \* h:2a
      <<"h", "/", "/", "d", "/", "{", "s", "}">>,       \* h//d/{s}
      <<"h">>,                                          \* h
      <<"h", "/", "d", "/", "a", NL>>,                  \* h/d/a\n
      <<"h", ".", "1", "{", "s", "}">>,                 \* h.1{s}
      <<"h", "/", "d", "/", "s", "/", "{", "{">>,       \* h/d/s/{{
      <<>>,                                             \* the empty string
      <<"/", "d", "/", "a">>,                           \* /d/a
      <<"h", NL, "/", "d">> }                           \* h\n/d

\* keyword arguments of remote(): encrypt_data_channel is never among them,
\* because __init__ (line 31) binds it to its own named parameter
FileKwargs ==
    { <<>>, [username |-> "u", host |-> <<"g">>, port |-> 2121] }

ProviderKwargs ==
    { <<>>,
      [username |-> "p", password |-> "pw", encrypt_data_channel |-> FALSE],
      [port |-> 990, encrypt_data_channel |-> TRUE] }

Ops == {"exists", "mtime", "size", "download", "upload", "list"}

NoResult == [kind |-> "none", op |-> "none"]

Init ==
    /\ file \in Addresses
    /\ kwargs \in FileKwargs
    /\ provider_kwargs \in ProviderKwargs
    /\ encrypt_data_channel \in BOOLEAN
    /\ rfiles \in {<<>>, [p \in RemoteFilePaths |-> <<"x">>]}
    /\ local_dir \in BOOLEAN
    /\ local_file \in {NoFile, <<"x", "y">>}
    \* os.path.exists("") is false; a file lies in an existing directory
    /\ dirname(local_path(file)) = <<>> => ~local_dir
    /\ (local_file # NoFile /\ dirname(local_path(file)) # <<>>) => local_dir
    /\ conns = <<>>
    /\ stack = <<>>
    /\ log = <<>>
    /\ faulted = FALSE
    /\ result = NoResult
    /\ prev = NoResult

----------------------------------------------------------------------------
(* Exceptions and control flow                                              *)

\* Line 12 imports FTPFileException; the name SFTPFileException that lines
\* 80, 88 and 106 raise is bound nowhere in the module, so evaluating
\* 'raise SFTPFileException(...)' raises NameError and the message is never
\* built.
SFTPFileException(msg) == [type |-> "NameError", name |-> "SFTPFileException"]

Exception(type) == [type |-> type]

\* 'yield conn' followed by 'conn.close()' with no try/finally: an exception
\* raised in the with block is thrown into the generator at the yield and
\* leaves it there, so close() does not run.  cs: the connections; ids: the
\* connections of the with blocks being left.
ftpc_unwind(cs, ids) == cs

\* a manager that forgets conn.close() after the yield
ftpc_close_skipped(cs, id) == cs

\* leaving the with block normally (fall-through or return): conn.close()
ftpc_close(cs, id) == [cs EXCEPT ![id].open = FALSE]

Top == stack[Len(stack)]

SetTop(f) == [stack EXCEPT ![Len(stack)] = f]

Frame(op, pc, mdd) ==
    [op |-> op, pc |-> pc, conn |-> 0, ret |-> FALSE, val |-> None,
     make_dest_dirs |-> mdd]

FirstPc(op) ==
    CASE op = "exists" -> "start"
      [] op = "mtime" -> "callexists"
      [] op = "size" -> "callexists"
      [] op = "download" -> "enter"
      [] op = "upload" -> "enter"
      [] op = "list" -> "start"

\* with blocks that go straight to the read or the transfer, without
\* synchronize_times
AfterEnter_NoSync(op) ==
    CASE op = "exists" -> "query"
      [] op = "mtime" -> "read"
      [] op = "size" -> "read"
      [] op = "download" -> "callexists"
      [] op = "upload" -> "xfer"
      [] op = "list" -> "walk"

\* the statement that follows 'with self.ftpc() as ftpc:' in each method
AfterEnter(op) ==
    CASE op = "exists" -> "query"
      [] op = "mtime" -> "sync"
      [] op = "size" -> "read"
      [] op = "download" -> "callexists"
      [] op = "upload" -> "sync"
      [] op = "list" -> "walk"

\* connections of the with blocks that are open on the stack
HeldConns == {stack[i].conn : i \in 1..Len(stack)} \ {0}

\* an exception leaves every frame: nothing in the module catches one
Raise(e) ==
    /\ stack' = <<>>
    /\ conns' = ftpc_unwind(conns, HeldConns)
    /\ result' = [kind |-> "raise", op |-> stack[1].op, exc |-> e,
                  make_dest_dirs |-> stack[1].make_dest_dirs]

\* a return value goes to the caller, or ends the invocation
Return(v) ==
    IF Len(stack) = 1
    THEN /\ stack' = <<>>
         /\ result' = [kind |-> "return", op |-> Top.op, val |-> v,
                       make_dest_dirs |-> Top.make_dest_dirs]
    ELSE /\ stack' = [SubSeq(stack, 1, Len(stack) - 1)
                        EXCEPT ![Len(stack) - 1].ret = v]
         /\ UNCHANGED result

\* an FTP call on a connection; val is what path.exists returned, TRUE otherwise
Event(ev, conn, val) == [ev |-> ev, conn |-> conn, val |-> val]

Handle == <<file, kwargs, provider_kwargs, encrypt_data_channel>>

Running(op, pc) == stack # <<>> /\ Top.op = op /\ Top.pc = pc

----------------------------------------------------------------------------
(* Actions                                                                  *)

OpenConns == {i \in 1..Len(conns) : conns[i].open}

\* The workflow engine invokes a public operation.  Closed FTPHost objects
\* of earlier invocations are garbage and dropped; open ones stay.
Call(op, mdd) ==
    /\ stack = <<>>
    /\ Cardinality(OpenConns) <= MaxLeaked
    /\ stack' = <<Frame(op, FirstPc(op), mdd)>>
    /\ conns' = SelectSeq(conns, LAMBDA c : c.open)
    /\ log' = <<>>
    /\ faulted' = FALSE
    /\ prev' = [kind |-> result.kind, op |-> result.op, local_file |-> local_file]
    /\ result' = NoResult
    /\ UNCHANGED <<Handle, rfiles, local_file, local_dir>>

\* exists(), lines 73 and 79-80
ExistsStart ==
    /\ Running("exists", "start")
    /\ IF Matched(file)
       THEN /\ stack' = SetTop([Top EXCEPT !.pc = "enter"])
            /\ UNCHANGED <<conns, result>>
       ELSE Raise(SFTPFileException("The file cannot be parsed as an FTP path"))
    /\ UNCHANGED <<Handle, rfiles, local_file, local_dir, log, faulted, prev>>

\* ftpc() up to the yield, lines 41-69: entering a with block
Enter ==
    /\ stack # <<>>
    /\ Top.pc = "enter"
    /\ IF portRaises(file)
       THEN /\ Raise(Exception("AttributeError"))
            /\ UNCHANGED log
       ELSE LET conn == FTPHost(kwargs_to_use(file, encrypt_data_channel,
                                              provider_kwargs, kwargs))
                id   == Len(conns) + 1
            IN  /\ conns' = Append(conns, conn)
                /\ stack' = SetTop([Top EXCEPT !.conn = id, !.pc = AfterEnter(Top.op)])
                /\ log' = Append(log, Event("open", id, TRUE))
                /\ UNCHANGED result
    /\ UNCHANGED <<Handle, rfiles, local_file, local_dir, faulted, prev>>

\* 'if self.exists():' of mtime, size and download, lines 83, 91, 99
CallExists ==
    /\ stack # <<>>
    /\ Top.pc = "callexists"
    /\ stack' = Append(SetTop([Top EXCEPT !.pc = "check"]),
                       Frame("exists", FirstPc("exists"), TRUE))
    /\ UNCHANGED <<Handle, rfiles, local_file, local_dir, conns, log, faulted,
                   result, prev>>

\* 'ftpc.path.exists(self.remote_path)', line 75: the value to return
ExistsQuery ==
    /\ Running("exists", "query")
    /\ stack' = SetTop([Top EXCEPT !.val = path_exists(rfiles, remote_path(file)),
                                   !.pc = "exit"])
    /\ log' = Append(log, Event("exists", Top.conn, path_exists(rfiles, remote_path(file))))
    /\ UNCHANGED <<Handle, rfiles, local_file, local_dir, conns, faulted, result, prev>>

\* leaving a with block by return or by reaching its end: ftpc() after the
\* yield (line 70), then the method returns
Exit ==
    /\ stack # <<>>
    /\ Top.pc = "exit"
    /\ conns' = ftpc_close(conns, Top.conn)
    /\ log' = Append(log, Event("close", Top.conn, TRUE))
    /\ Return(Top.val)
    /\ UNCHANGED <<Handle, rfiles, local_file, local_dir, faulted, prev>>

\* mtime(), lines 83 and 87-88
MtimeCheck ==
    /\ Running("mtime", "check")
    /\ IF Top.ret
       THEN /\ stack' = SetTop([Top EXCEPT !.pc = "enter"])
            /\ UNCHANGED <<conns, result>>
       ELSE Raise(SFTPFileException("The file does not seem to exist remotely"))
    /\ UNCHANGED <<Handle, rfiles, local_file, local_dir, log, faulted, prev>>

\* self._iofile.size_local
size_local(lf) ==
    IF lf # NoFile THEN [kind |-> "return", val |-> [st_size |-> Len(lf)]]
    ELSE [kind |-> "raise", exc |-> Exception("SizeUnavailable")]

\* a size() that treats an absent remote file as mtime() does, with no
\* fallback to the local copy
SizeCheck_NoFallback ==
    /\ Running("size", "check")
    /\ IF Top.ret
       THEN /\ stack' = SetTop([Top EXCEPT !.pc = "enter"])
            /\ UNCHANGED <<conns, result>>
       ELSE Raise(SFTPFileException("The file does not seem to exist remotely"))
    /\ UNCHANGED <<Handle, rfiles, local_file, local_dir, log, faulted, prev>>

\* size(), lines 91 and 94-95
SizeCheck ==
    /\ Running("size", "check")
    /\ IF Top.ret
       THEN /\ stack' = SetTop([Top EXCEPT !.pc = "enter"])
            /\ UNCHANGED <<conns, result>>
       ELSE IF size_local(local_file).kind = "return"
       THEN /\ Return(size_local(local_file).val)
            /\ UNCHANGED conns
       ELSE Raise(size_local(local_file).exc)
    /\ UNCHANGED <<Handle, rfiles, local_file, local_dir, log, faulted, prev>>

\* download(), lines 99 and 105-106: the raise is inside the with block
DownloadCheck ==
    /\ Running("download", "check")
    /\ IF Top.ret
       THEN /\ stack' = SetTop([Top EXCEPT !.pc = "mkdirs"])
            /\ UNCHANGED <<conns, result>>
       ELSE Raise(SFTPFileException("The file does not seem to exist remotely"))
    /\ UNCHANGED <<Handle, rfiles, local_file, local_dir, log, faulted, prev>>

\* download(), lines 101-102; os.makedirs("") raises FileNotFoundError
MakeDirs ==
    /\ Running("download", "mkdirs")
    /\ IF ~local_dir /\ Top.make_dest_dirs
       THEN IF dirname(local_path(file)) = <<>>
            THEN /\ Raise(Exception("FileNotFoundError"))
                 /\ UNCHANGED local_dir
            ELSE /\ local_dir' = TRUE
                 /\ stack' = SetTop([Top EXCEPT !.pc = "sync"])
                 /\ UNCHANGED <<conns, result>>
       ELSE /\ stack' = SetTop([Top EXCEPT !.pc = "sync"])
            /\ UNCHANGED <<local_dir, conns, result>>
    /\ UNCHANGED <<Handle, rfiles, local_file, log, faulted, prev>>

\* 'ftpc.synchronize_times()', lines 85, 103, 109
Sync ==
    /\ stack # <<>>
    /\ Top.pc = "sync"
    /\ stack' = SetTop([Top EXCEPT !.pc = IF Top.op = "mtime" THEN "read" ELSE "xfer"])
    /\ log' = Append(log, Event("synchronize_times", Top.conn, TRUE))
    /\ UNCHANGED <<Handle, rfiles, local_file, local_dir, conns, faulted, result, prev>>

\* 'ftpc.path.getmtime(self.remote_path)', line 86
GetMtime ==
    /\ Running("mtime", "read")
    /\ stack' = SetTop([Top EXCEPT !.val = [st_mtime |-> Resolve(remote_path(file))],
                                   !.pc = "exit"])
    /\ log' = Append(log, Event("getmtime", Top.conn, TRUE))
    /\ UNCHANGED <<Handle, rfiles, local_file, local_dir, conns, faulted, result, prev>>

\* 'ftpc.path.getsize(self.remote_path)', line 93
GetSize ==
    /\ Running("size", "read")
    /\ stack' = SetTop([Top EXCEPT
          !.val = IF IsRemoteFile(rfiles, remote_path(file))
                  THEN [st_size |-> Len(rfiles[Resolve(remote_path(file))])]
                  ELSE [st_size_of |-> "directory"],
          !.pc = "exit"])
    /\ log' = Append(log, Event("getsize", Top.conn, TRUE))
    /\ UNCHANGED <<Handle, rfiles, local_file, local_dir, conns, faulted, result, prev>>

\* 'ftpc.download(source=self.remote_path, target=self.local_path)', line 104:
\* the source is opened for reading, then the target for writing
DownloadTransfer ==
    /\ Running("download", "xfer")
    /\ log' = Append(log, Event("download", Top.conn, TRUE))
    /\ IF ~IsRemoteFile(rfiles, remote_path(file))
       THEN /\ Raise(Exception("TransferError"))
            /\ UNCHANGED local_file
       ELSE IF dirname(local_path(file)) # <<>> /\ ~local_dir
       THEN /\ Raise(Exception("FileNotFoundError"))
            /\ UNCHANGED local_file
       ELSE /\ local_file' = rfiles[Resolve(remote_path(file))]
            /\ stack' = SetTop([Top EXCEPT !.pc = "exit"])
            /\ UNCHANGED <<conns, result>>
    /\ UNCHANGED <<Handle, rfiles, local_dir, faulted, prev>>

\* 'ftpc.upload(source=self.local_path, target=self.remote_path)', line 110
UploadTransfer ==
    /\ Running("upload", "xfer")
    /\ log' = Append(log, Event("upload", Top.conn, TRUE))
    /\ LET target == Resolve(remote_path(file))
       IN  IF local_file = NoFile
           THEN /\ Raise(Exception("FileNotFoundError"))
                /\ UNCHANGED rfiles
           ELSE IF target \in RemoteDirs
                   \/ SubSeq(target, 1, Len(target) - 1) \notin RemoteDirs
           THEN /\ Raise(Exception("TransferError"))
                /\ UNCHANGED rfiles
           ELSE /\ rfiles' = [q \in DOMAIN rfiles \cup {target} |->
                                IF q = target THEN local_file ELSE rfiles[q]]
                /\ stack' = SetTop([Top EXCEPT !.pc = "exit"])
                /\ UNCHANGED <<conns, result>>
    /\ UNCHANGED <<Handle, local_file, local_dir, faulted, prev>>

\* list, lines 114-121: os.path.normpath(None) raises TypeError
ListStart ==
    /\ Running("list", "start")
    /\ IF Matched(file)
       THEN /\ stack' = SetTop([Top EXCEPT !.pc = "enter"])
            /\ UNCHANGED <<conns, result>>
       ELSE Raise(Exception("TypeError"))
    /\ UNCHANGED <<Handle, rfiles, local_file, local_dir, log, faulted, prev>>

\* list, lines 124-127
Walk ==
    /\ Running("list", "walk")
    /\ stack' = SetTop([Top EXCEPT !.val = file_list(rfiles, remote_path(file)),
                                   !.pc = "exit"])
    /\ log' = Append(log, Event("walk", Top.conn, TRUE))
    /\ UNCHANGED <<Handle, rfiles, local_file, local_dir, conns, faulted, result, prev>>

\* an FTP call inside a with block fails (network, authentication, protocol)
TransportFault ==
    /\ stack # <<>>
    /\ Top.pc \in {"query", "sync", "read", "xfer"}
    /\ faulted' = TRUE
    /\ Raise(Exception("TransferError"))
    /\ UNCHANGED <<Handle, rfiles, local_file, local_dir, log, prev>>

\* FTPHost(...) itself fails, line 68: no connection comes to exist
ConnectFault ==
    /\ stack # <<>>
    /\ Top.pc = "enter"
    /\ ~portRaises(file)
    /\ faulted' = TRUE
    /\ Raise(Exception("TransferError"))
    /\ UNCHANGED <<Handle, rfiles, local_file, local_dir, log, prev>>

Next ==
    \/ \E op \in Ops : \E mdd \in (IF op = "download" THEN BOOLEAN ELSE {TRUE}) :
          Call(op, mdd)
    \/ ExistsStart
    \/ Enter
    \/ CallExists
    \/ ExistsQuery
    \/ Exit
    \/ MtimeCheck
    \/ SizeCheck
    \/ DownloadCheck
    \/ MakeDirs
    \/ Sync
    \/ GetMtime
    \/ GetSize
    \/ DownloadTransfer
    \/ UploadTransfer
    \/ ListStart
    \/ Walk
    \/ TransportFault
    \/ ConnectFault

Spec == Init /\ [][Next]_vars

----------------------------------------------------------------------------
(* Properties                                                               *)

\* an invocation has finished and no other has started
Finished == stack = <<>> /\ result.kind # "none"

Events(ev) == {i \in 1..Len(log) : log[i].ev = ev}

\* connections the invocation has opened and not closed
OpenNow == Cardinality(Events("open")) - Cardinality(Events("close"))

\* the public operation of the running or last finished invocation
CurrentOp == IF stack # <<>> THEN stack[1].op ELSE result.op

RemoteAbsent == ~path_exists(rfiles, remote_path(file))

\* the exceptions the module means to raise, were the class name bound
AddressParseError(e) == e.type = "SFTPFileException" /\ e.msg = "The file cannot be parsed as an FTP path"

RemoteFileMissing(e) == e.type = "SFTPFileException" /\ e.msg = "The file does not seem to exist remotely"

\* C1: after any public operation has finished, by return or by exception,
\* every connection it opened is closed.
C1_AllConnectionsClosed ==
    Finished => \A i \in Events("open") : ~conns[log[i].conn].open

\* C2: on an address string that does not match the grammar no connection is
\* opened at any point, and every public operation ends with the
\* address-parse error.
C2_MalformedAddressFails ==
    ~Matched(file) =>
        /\ Events("open") = {}
        /\ Finished => (result.kind = "raise" /\ AddressParseError(result.exc))

\* C3: with a well-formed address and an absent remote path, exists()
\* returns false, and mtime() and download() end with the
\* remote-file-missing error, download without a transfer.
C3_AbsentRemotePath ==
    (Finished /\ Matched(file) /\ ~faulted /\ RemoteAbsent) =>
        /\ result.op = "exists" => (result.kind = "return" /\ result.val = FALSE)
        /\ result.op \in {"mtime", "download"} =>
              /\ result.kind = "raise"
              /\ RemoteFileMissing(result.exc)
              /\ Events("download") = {}

\* the value the layered merge gives key k: per-file, else provider, else default
Layered(k, default) ==
    IF k \in DOMAIN kwargs THEN kwargs[k]
    ELSE IF k \in DOMAIN provider_kwargs THEN provider_kwargs[k]
    ELSE default

\* the encryption flag of the layered merge: the per-file flag is given to
\* the constructor; TRUE can only have been given, FALSE is also the default
LayeredEncryption ==
    IF encrypt_data_channel THEN TRUE
    ELSE IF "encrypt_data_channel" \in DOMAIN provider_kwargs
    THEN provider_kwargs["encrypt_data_channel"]
    ELSE FALSE

\* C4: every connection uses, for host, port, username, password and the
\* encryption flag, the per-file value if given, else the provider value if
\* given, else the default; TLS is used exactly when the merged flag is true.
C4_LayeredMerge ==
    \A i \in 1..Len(conns) :
        /\ conns[i].host = Layered("host", host(file))
        /\ conns[i].port = Layered("port", port(file))
        /\ conns[i].username = Layered("username", None)
        /\ conns[i].password = Layered("password", None)
        /\ conns[i].encrypt_data_channel = LayeredEncryption
        /\ (conns[i].base_class = "FTP_TLS") = LayeredEncryption

Below(base) ==
    {q \in DOMAIN rfiles \cup RemoteDirs :
        Len(q) > Len(base) /\ SubSeq(q, 1, Len(base)) = base}

\* the static prefix of a path: what precedes the first placeholder token
StaticPrefix(path) ==
    IF first_wildcard(path) # 0 THEN Take(path, first_wildcard(path) - 1) ELSE path

\* C6: list() walks from the directory of the static prefix of the remote
\* path and returns every file and directory below it, and only those, each
\* as a path from the FTP root that does not begin with a separator.
C6_ListBelowStaticPrefix ==
    (Finished /\ result.op = "list" /\ result.kind = "return") =>
        LET base == Resolve(dirname(StaticPrefix(normpath(remote_path(file)))))
        IN  /\ \A e \in result.val : e # <<>> /\ e[1] # Slash
            /\ base \in RemoteDirs =>
                  {Resolve(e) : e \in result.val} = Below(base)

\* C7: download() with the default make_dest_dirs, of an existing remote
\* file over a working transport, succeeds; and when it follows a successful
\* download() it leaves the local content that call left.
C7_DownloadIdempotent ==
    (Finished /\ result.op = "download" /\ result.make_dest_dirs /\ ~faulted
       /\ Matched(file) /\ IsRemoteFile(rfiles, remote_path(file))) =>
        /\ result.kind = "return"
        /\ (prev.op = "download" /\ prev.kind = "return") =>
              local_file = prev.local_file

\* C8: every string that begins with a host character is parsed; host, the
\* optional ':port' and path concatenate to the string; the port is the
\* integer after ':' when there is one and 21 otherwise.
C8_AddressRoundTrip ==
    (file # <<>> /\ file[1] \in HostChars) =>
        /\ Matched(file)
        /\ LET m == matched_address(file)
           IN  /\ m.host \o (IF m.port # <<>> THEN <<":">> \o m.port ELSE <<>>)
                         \o m.path_remainder = file
               /\ port(file) = (IF m.port # <<>> THEN int(m.port) ELSE 21)

\* C9: the invocation of a public operation on a well-formed address opens
\* one connection: never a second one, at the same time or afterwards.
C9_OneConnectionPerInvocation ==
    Matched(file) => Cardinality(Events("open")) <= 1

\* C9 as amended: an invocation opens at most two connections; exists,
\* upload and list open at most one; mtime and size never hold two at once
\* (the second is opened after the existence check's is closed); download
\* holds at most two at once; and an invocation that returns has opened at
\* least one connection and closed every one it opened.
C9_AtMostTwoConnections ==
    /\ Cardinality(Events("open")) <= 2
    /\ CurrentOp \in {"exists", "upload", "list"} => Cardinality(Events("open")) <= 1
    /\ CurrentOp \in {"mtime", "size"} => OpenNow <= 1
    /\ OpenNow <= 2
    /\ (Finished /\ result.kind = "return") =>
          /\ Cardinality(Events("open")) >= 1
          /\ OpenNow = 0
          /\ \A i \in Events("open") : ~conns[log[i].conn].open

\* download() holds its own connection while the existence check holds another
C9_Witness ==
    /\ stack # <<>> /\ CurrentOp = "download" /\ Matched(file)
    /\ OpenNow = 2
    /\ Cardinality(OpenConns) >= 2

\* C10: getmtime, download and upload run on a connection only after
\* synchronize_times has run on that connection; and in mtime() and
\* download() the synchronization and the read or transfer run only after an
\* existence check that returned true.
C10_SynchronizeFirst ==
    /\ \A i \in Events("getmtime") \cup Events("download") \cup Events("upload") :
          \E j \in 1..(i - 1) :
              log[j].ev = "synchronize_times" /\ log[j].conn = log[i].conn
    /\ CurrentOp \in {"mtime", "download"} =>
          \A i \in Events("synchronize_times") \cup Events("getmtime")
                     \cup Events("download") :
              \E j \in 1..(i - 1) : log[j].ev = "exists" /\ log[j].val = TRUE

\* mtime() has returned a modification time, read after the synchronization
C10_Witness ==
    /\ Finished /\ result.op = "mtime" /\ result.kind = "return"
    /\ Events("getmtime") # {} /\ Events("synchronize_times") # {}

====
